---- MODULE Spec2Model ----
(***************************************************************************)
(* Model of the async Move VM (move-async-vm/src/async_vm.rs): an engine   *)
(* instance AsyncVM holding the actor catalog and the message dispatch     *)
(* table, and one-shot sessions whose operations new_actor and             *)
(* handle_message orchestrate one call into the underlying Move VM.        *)
(*                                                                         *)
(* The underlying Move VM is an external collaborator.  Everything it      *)
(* decides (how much gas a call consumes, whether it fails, what it        *)
(* returns, its change set, events and the messages its natives queue) is  *)
(* an input of the operation, drawn from the bounded set EngineRuns.       *)
(* Actor code is assumed well typed: an initializer's return value and a   *)
(* handler's mutated state are serialized values of the state type.        *)
(***************************************************************************)
EXTENDS Integers, Sequences, FiniteSets, TLC

VARIABLES
    vm,        \* the AsyncVM: [actor_metadata, message_table]
    view,      \* the caller's state view (resolver): [modules, resources]
    gas,       \* remaining gas of the caller's GasStatus
    session,   \* the open AsyncSession (its AsyncExtension), or NoSession
    result,    \* the AsyncResult of the last operation
    last,      \* history: what the last operation was given and did
    committed, \* history: the operation whose change set was applied last
    input,     \* history: the actor definitions AsyncVM::new was given
    increments, \* history: per address, the Increment change sets applied
                \* since the actor's new_actor change set was applied
    peer       \* a second caller: [session, view, gas, result, last]

vars == <<vm, view, gas, session, result, last, committed, input, increments, peer>>

----------------------------------------------------------------------------
(* Bounds *)

\* initial remaining gas of the caller's gas meter
MaxGas == 3

\* width in bits of the scaled machine word standing for u64 gas amounts
GasWordBits == 3

\* largest state value an actor holds
MaxVal == 2

\* gas each of two interleaved callers starts with
ParGas == 1

\* width in bits of the scaled message identifier
HashBits == 3

----------------------------------------------------------------------------
(* Data *)

Addresses == {"A1", "A2"}

StateValues == 0..MaxVal

NoModule == ""

\* StructTag of an actor's state
StructTag(m, n) == [module |-> m, name |-> n]

CounterTag == StructTag("Counter", "State")
PingTag == StructTag("Ping", "State")

\* ActorMetadata values handed to AsyncVM::new
CounterActor ==
    [module_id |-> "Counter", state_tag |-> CounterTag,
     initializer |-> "init", messages |-> <<"increment", "peek">>]

PingActor ==
    [module_id |-> "Ping", state_tag |-> PingTag,
     initializer |-> "init", messages |-> <<"ping">>]

\* a second definition of module Counter, declaring "peek" only
CounterPeekActor ==
    [module_id |-> "Counter", state_tag |-> CounterTag,
     initializer |-> "init", messages |-> <<"peek">>]

PongActor ==
    [module_id |-> "Pong", state_tag |-> StructTag("Pong", "State"),
     initializer |-> "init", messages |-> <<"ping">>]

\* module identities a caller may name; "Ghost" is registered nowhere
ModuleIds == {"Counter", "Ping", "Ghost"}

\* modules whose code is published in the state view
PublishedModules == {"Counter"}

\* resource slots of the state view: the state types of published actors
ResourceKeys == Addresses \X {CounterTag}

\* Option<Vec<u8>>: <<>> is None, <<b>> is Some(b)
None == <<>>
Some(b) == <<b>>

RECURSIVE le_bytes(_, _)
\* little-endian bytes of v, n of them
le_bytes(v, n) ==
    IF n = 0 THEN <<>> ELSE <<v % 256>> \o le_bytes(v \div 256, n - 1)

RECURSIVE le_value(_)
\* the number a little-endian byte string encodes
le_value(bs) ==
    IF bs = <<>> THEN 0 ELSE Head(bs) + 256 * le_value(Tail(bs))

\* Value::simple_serialize for the state layout struct { value: u64 }
simple_serialize(v) == le_bytes(v, 8)

\* Value::simple_deserialize for the same layout; None on a malformed blob
simple_deserialize(bs) ==
    IF Len(bs) = 8 THEN Some(le_value(bs)) ELSE None

StateBlobs == {simple_serialize(v) : v \in StateValues}

----------------------------------------------------------------------------
(* Errors and results *)

VMError(code, msg) == [code |-> code, msg |-> msg]

NoError == VMError("", "")

partial_extension_error(msg) == VMError("VM_EXTENSION_ERROR", msg)

extension_error(msg) == partial_extension_error(msg)

AsyncError(error, gas_used) ==
    [kind |-> "error", error |-> error, change_set |-> <<>>,
     events |-> <<>>, messages |-> <<>>, gas_used |-> gas_used]

AsyncSuccess(change_set, events, messages, gas_used) ==
    [kind |-> "success", error |-> NoError, change_set |-> change_set,
     events |-> events, messages |-> messages, gas_used |-> gas_used]

NoResult ==
    [kind |-> "none", error |-> NoError, change_set |-> <<>>,
     events |-> <<>>, messages |-> <<>>, gas_used |-> 0]

\* the process aborted: an arithmetic overflow check failed
Panic ==
    [kind |-> "panic", error |-> NoError, change_set |-> <<>>,
     events |-> <<>>, messages |-> <<>>, gas_used |-> 0]

async_extension_error(msg) == AsyncError(extension_error(msg), 0)

vm_error_to_async(error) == AsyncError(error, 0)

partial_vm_error_to_async(error) == vm_error_to_async(error)

----------------------------------------------------------------------------
(* Change sets and the state view *)

\* one entry of a ChangeSet: absent, Some(blob) (write) or None (delete)
Untouched == [op |-> "none", blob |-> <<>>]
Written(b) == [op |-> "write", blob |-> b]
Deleted == [op |-> "delete", blob |-> <<>>]

EmptyChangeSet == [k \in ResourceKeys |-> Untouched]

\* ChangeSet::publish_resource: refuses a slot the change set already holds
publish_resource(change_set, actor_addr, state_tag, state) ==
    LET k == <<actor_addr, state_tag>> IN
    IF change_set[k] # Untouched
    THEN [ok |-> FALSE, change_set |-> change_set]
    ELSE [ok |-> TRUE, change_set |-> [change_set EXCEPT ![k] = Written(state)]]

EmptyResources == [k \in ResourceKeys |-> None]

\* the caller commits a change set to its storage
apply_change_set(resources, change_set) ==
    [k \in ResourceKeys |->
        CASE change_set[k].op = "write" -> Some(change_set[k].blob)
          [] change_set[k].op = "delete" -> None
          [] OTHER -> resources[k]]

\* Session::load_type: the struct's module must be published in the view
load_type_ok(v, state_type_tag) == state_type_tag.module \in v.modules

\* DataStore::load_resource: the GlobalValue cached for the slot
load_resource(v, actor_addr, state_type) ==
    LET slot == v.resources[<<actor_addr, state_type>>] IN
    IF slot = None THEN [ok |-> TRUE, value |-> None]
    ELSE LET val == simple_deserialize(slot[1]) IN
         IF val = None THEN [ok |-> FALSE, value |-> None]
         ELSE [ok |-> TRUE, value |-> val]

\* an existence check that never finds the state
exists_never(state) == FALSE

\* GlobalValue::exists
exists(state) == state.value # None

\* a borrow that reads an empty slot as the zero state
borrow_global_default(state) ==
    [ok |-> TRUE, error |-> NoError,
     value |-> IF state.value = None THEN 0 ELSE state.value[1]]

\* GlobalValue::borrow_global, value_as::<Reference>, read_ref: the value
\* the slot holds, or the engine's missing-resource error
borrow_global(state) ==
    IF state.value = None
    THEN [ok |-> FALSE, error |-> VMError("MISSING_DATA", ""), value |-> 0]
    ELSE [ok |-> TRUE, error |-> NoError, value |-> state.value[1]]

----------------------------------------------------------------------------
(* AsyncVM::new *)

ModuleCode(m) ==
    CASE m = "Counter" -> 1 [] m = "Ping" -> 2 [] OTHER -> 3

NameCode(n) ==
    CASE n = "increment" -> 1 [] n = "peek" -> 2 [] n = "ping" -> 3 [] OTHER -> 0

\* actor_metadata::message_hash: a fixed-width hash of module and message name
message_hash(module_id, name) ==
    (ModuleCode(module_id) * 3 + NameCode(name)) % (2 ^ HashBits)

Range(f) == {f[i] : i \in DOMAIN f}

\* a catalog that keeps the first definition of a module
collect_actor_metadata_first(actors) ==
    [m \in {actors[i].module_id : i \in DOMAIN actors} |->
        LET first_i == CHOOSE i \in DOMAIN actors :
                /\ actors[i].module_id = m
                /\ \A j \in DOMAIN actors : actors[j].module_id = m => i <= j
        IN actors[first_i]]

\* collect() into HashMap<ModuleId, ActorMetadata>: a later definition of a
\* module replaces an earlier one
collect_actor_metadata(actors) ==
    [m \in {actors[i].module_id : i \in DOMAIN actors} |->
        LET last_i == CHOOSE i \in DOMAIN actors :
                /\ actors[i].module_id = m
                /\ \A j \in DOMAIN actors : actors[j].module_id = m => j <= i
        IN actors[last_i]]

\* items that name the actor's initializer as the handler
message_items_initializer(actor_metadata) ==
    UNION {{<<message_hash(a.module_id, n), <<a.module_id, a.initializer>>>> :
                n \in Range(a.messages)} : a \in Range(actor_metadata)}

\* the (hash, (module, message)) items the flat_map yields
message_items(actor_metadata) ==
    UNION {{<<message_hash(a.module_id, n), <<a.module_id, n>>>> :
                n \in Range(a.messages)} : a \in Range(actor_metadata)}

\* collect() into HashMap<u64, (ModuleId, Identifier)>: of the items sharing a
\* hash the one iterated last stays, and the iteration order of
\* HashMap::values() is unspecified
collect_message_tables(actor_metadata) ==
    LET items == message_items(actor_metadata)
        hashes == {it[1] : it \in items}
    IN {t \in [hashes -> {it[2] : it \in items}] :
            \A h \in hashes : <<h, t[h]>> \in items}

AsyncVM_new(actors) ==
    LET actor_metadata == collect_actor_metadata(actors) IN
    {[actor_metadata |-> actor_metadata, message_table |-> t] :
        t \in collect_message_tables(actor_metadata)}

\* the actor definitions the engine instance is constructed from
Actors == <<CounterActor, PingActor>>

\* a catalog lookup that falls back to some registered actor
actor_metadata_get_default(machine, module_id) ==
    IF module_id \in DOMAIN machine.actor_metadata
    THEN Some(machine.actor_metadata[module_id])
    ELSE Some(machine.actor_metadata[CHOOSE m \in DOMAIN machine.actor_metadata : TRUE])

\* HashMap::get on the catalog
actor_metadata_get(machine, module_id) ==
    IF module_id \in DOMAIN machine.actor_metadata
    THEN Some(machine.actor_metadata[module_id]) ELSE None

\* a dispatch lookup that falls back to some registered handler
resolve_message_hash_default(machine, h) ==
    IF h \in DOMAIN machine.message_table
    THEN Some(machine.message_table[h])
    ELSE Some(machine.message_table[CHOOSE k \in DOMAIN machine.message_table : TRUE])

\* AsyncVM::resolve_message_hash, HashMap::get on the dispatch table
resolve_message_hash(machine, h) ==
    IF h \in DOMAIN machine.message_table
    THEN Some(machine.message_table[h]) ELSE None

----------------------------------------------------------------------------
(* Sessions and the underlying engine *)

VirtualTimes == {7}

\* an execution context that is created with a message already queued
make_extensions_preloaded(actor_addr, virtual_time, in_initializer) ==
    [current_actor |-> actor_addr, sent |-> <<<<"A1", 0, <<>>>>>>,
     in_initializer |-> in_initializer, virtual_time |-> virtual_time]

\* natives::AsyncExtension, the per-session actor execution context
make_extensions(actor_addr, virtual_time, in_initializer) ==
    [current_actor |-> actor_addr, sent |-> <<>>,
     in_initializer |-> in_initializer, virtual_time |-> virtual_time]

NoExtension == make_extensions("", 0, FALSE)

NoSession == [open |-> FALSE, ext |-> NoExtension]

\* AsyncVM::new_session
new_session(for_actor, virtual_time) ==
    [open |-> TRUE, ext |-> make_extensions(for_actor, virtual_time, TRUE)]

\* argument lists a caller passes to handle_message
CallerArgs == {<<>>, <<<<9>>>>}

\* message identifiers a caller may pass: 0 is no key of the dispatch table
CallerHashes ==
    {0} \cup UNION {{message_hash(a.module_id, n) : n \in Range(a.messages)} :
                        a \in Range(Actors)}

\* messages (target address, message hash, arguments) actor code sends
Msg1 == <<"A2", message_hash("Counter", "increment"), <<>>>>
Msg2 == <<"A1", message_hash("Ping", "ping"), <<<<9>>>>>>

\* what one run of actor code leaves behind apart from its outputs: the
\* engine's change set, its events and the messages its natives queued
EngineEffects(v, actor_key) ==
    LET other_key == CHOOSE k \in ResourceKeys : k # actor_key IN
    {[change_set |-> EmptyChangeSet, events |-> <<>>, sent |-> <<>>],
     [change_set |-> [EmptyChangeSet EXCEPT ![other_key] = Written(simple_serialize(0))],
      events |-> <<"e1">>, sent |-> <<Msg1>>],
     [change_set |-> [EmptyChangeSet EXCEPT ![actor_key] = Written(simple_serialize(0))],
      events |-> <<>>, sent |-> <<Msg1, Msg2>>],
     [change_set |-> IF v.resources[actor_key] # None
                     THEN [EmptyChangeSet EXCEPT ![actor_key] = Deleted]
                     ELSE EmptyChangeSet,
      events |-> <<"e1", "e2">>, sent |-> <<Msg2, Msg1>>]}

\* SerializedReturnValues.return_values: (bytes, layout) pairs
ReturnValues ==
    {<<>>} \cup {<<<<b, "State">>>> : b \in StateBlobs}
           \cup {<<<<simple_serialize(0), "State">>, <<simple_serialize(MaxVal), "State">>>>}

\* an engine run that failed at once; mutable_reference_outputs holds
\* (index, bytes, layout) triples
NoRun ==
    [ok |-> FALSE, gas |-> 0, return_values |-> <<>>,
     mutable_reference_outputs |-> <<>>, change_set |-> EmptyChangeSet,
     events |-> <<>>, sent |-> <<>>, finish_ok |-> FALSE]

\* the runs of execute_function_bypass_visibility followed by
\* finish_with_extensions that the engine may make with g gas remaining:
\* the call fails, or it succeeds and the finish fails, or both succeed
EngineRuns(v, g, actor_key, in_init) ==
    {[NoRun EXCEPT !.gas = c] : c \in 0..g}
    \cup {[NoRun EXCEPT !.gas = c, !.ok = TRUE] : c \in 0..g}
    \cup {[ok |-> TRUE, gas |-> c,
           return_values |-> IF in_init THEN o ELSE <<>>,
           mutable_reference_outputs |-> IF in_init THEN <<>> ELSE
               [i \in DOMAIN o |-> <<i - 1, o[i][1], o[i][2]>>],
           change_set |-> e.change_set, events |-> e.events, sent |-> e.sent,
           finish_ok |-> TRUE] :
          c \in 0..g, o \in ReturnValues, e \in EngineEffects(v, actor_key)}

\* u64 subtraction `a - b`: a build with overflow checks panics when it
\* underflows, a build without them wraps around
sub_u64(a, b, overflow_checks) ==
    IF a >= b THEN [panic |-> FALSE, value |-> a - b]
    ELSE IF overflow_checks THEN [panic |-> TRUE, value |-> 0]
    ELSE [panic |-> FALSE, value |-> a - b + 2 ^ GasWordBits]

----------------------------------------------------------------------------
(* History of one operation *)

NoKey == <<"", StructTag("", "")>>

\* what an operation did: whether it loaded the state slot and which, whether
\* it invoked actor code and how, whether the engine session was finished,
\* and the engine's run
NoTrace ==
    [loaded |-> FALSE, key |-> NoKey, invoked |-> FALSE, finished |-> FALSE,
     module_id |-> NoModule, function |-> "", args |-> <<>>,
     ext |-> NoExtension, run |-> NoRun]

Outcome(res, gas_after, trace) ==
    [result |-> res, gas |-> gas_after, trace |-> trace]

----------------------------------------------------------------------------
(* AsyncSession operations *)

\* an engine call that finishes the session after a failed call too
execute_always_finishing(ext, g, run) ==
    [ok |-> run.ok /\ run.finish_ok,
     error |-> IF ~run.finish_ok THEN VMError("FINISH_FAILURE", "")
               ELSE IF ~run.ok THEN VMError("EXECUTION_FAILURE", "")
               ELSE NoError,
     gas |-> g - run.gas,
     finished |-> TRUE,
     return_values |-> run.return_values,
     mutable_reference_outputs |-> run.mutable_reference_outputs,
     change_set |-> run.change_set,
     events |-> run.events,
     native_extensions |-> [ext EXCEPT !.sent = @ \o run.sent]]

\* execute_function_bypass_visibility(..).and_then(|ret| Ok((ret,
\* finish_with_extensions()?))): the engine charges the gas meter; the session
\* is finished only when the call returned Ok; natives append to ext.sent
execute(ext, g, run) ==
    [ok |-> run.ok /\ run.finish_ok,
     error |-> IF ~run.ok THEN VMError("EXECUTION_FAILURE", "")
               ELSE IF ~run.finish_ok THEN VMError("FINISH_FAILURE", "")
               ELSE NoError,
     gas |-> g - run.gas,
     finished |-> run.ok,
     return_values |-> run.return_values,
     mutable_reference_outputs |-> run.mutable_reference_outputs,
     change_set |-> run.change_set,
     events |-> run.events,
     native_extensions |-> [ext EXCEPT !.sent = @ \o run.sent]]

\* gas_status.remaining_gas().get() - gas_before
gas_used_of(gas_before, gas_after, overflow_checks) ==
    sub_u64(gas_after, gas_before, overflow_checks)

\* a publish that has lost the state bytes
publish_actor_state_empty(change_set, actor_addr, state_tag, state) ==
    publish_resource(change_set, actor_addr, state_tag, <<>>)

publish_actor_state(change_set, actor_addr, state_tag, state) ==
    publish_resource(change_set, actor_addr, state_tag, state)

RECURSIVE Reverse(_)
Reverse(q) == IF q = <<>> THEN <<>> ELSE Reverse(Tail(q)) \o <<Head(q)>>

\* a drain that pops the messages from the back
drain_sent_reversed(native_extensions) == Reverse(native_extensions.sent)

\* native_extensions.remove::<AsyncExtension>().sent
drain_sent(native_extensions) == native_extensions.sent

\* return_values.remove(0).0
initializer_state(return_values) == return_values[1][1]

\* the wrong component of the output: its serialized local index
handler_state_index(mutable_reference_outputs) ==
    simple_serialize(mutable_reference_outputs[1][1])

\* mutable_reference_outputs.remove(0).1
handler_state(mutable_reference_outputs) == mutable_reference_outputs[1][2]

\* new_actor from "Execute the initializer" on
new_actor_execute(actor, actor_addr, ext, g, run, overflow_checks) ==
    LET gas_before == g
        exe == execute(ext, g, run)
        gas_used == gas_used_of(gas_before, exe.gas, overflow_checks)
        trace == [loaded |-> TRUE, key |-> <<actor_addr, actor.state_tag>>,
                  invoked |-> TRUE, finished |-> exe.finished,
                  module_id |-> actor.module_id, function |-> actor.initializer,
                  args |-> <<>>, ext |-> ext, run |-> run]
    IN  IF gas_used.panic THEN Outcome(Panic, exe.gas, trace)
        ELSE IF ~exe.ok THEN Outcome(AsyncError(exe.error, gas_used.value), exe.gas, trace)
        ELSE IF Len(exe.return_values) # 1
        THEN Outcome(async_extension_error("inconsistent initializer"), exe.gas, trace)
        ELSE LET pub == publish_actor_state(exe.change_set, actor_addr, actor.state_tag,
                                            initializer_state(exe.return_values))
             IN  IF ~pub.ok
                 THEN Outcome(partial_vm_error_to_async(
                                  partial_extension_error("cannot publish actor state")),
                              exe.gas, trace)
                 ELSE Outcome(AsyncSuccess(pub.change_set, exe.events,
                                           drain_sent(exe.native_extensions),
                                           gas_used.value),
                              exe.gas, trace)

\* AsyncSession::new_actor: the set of outcomes the call may have
new_actor(machine, sess, v, g, module_id, actor_addr) ==
    LET found == actor_metadata_get(machine, module_id) IN
    IF found = None
    THEN {Outcome(async_extension_error("actor unknown"), g, NoTrace)}
    ELSE
    LET actor == found[1]
        state_type_tag == actor.state_tag
    IN
    IF ~load_type_ok(v, state_type_tag)
    THEN {Outcome(vm_error_to_async(VMError("LINKER_ERROR", "")), g, NoTrace)}
    ELSE
    LET state == load_resource(v, actor_addr, state_type_tag)
        loaded == [NoTrace EXCEPT !.loaded = TRUE, !.key = <<actor_addr, state_type_tag>>]
    IN
    IF ~state.ok
    THEN {Outcome(partial_vm_error_to_async(
                      VMError("FAILED_TO_DESERIALIZE_RESOURCE", "")), g, loaded)}
    ELSE IF exists(state)
    THEN {Outcome(async_extension_error("actor already exists"), g, loaded)}
    ELSE {new_actor_execute(actor, actor_addr, sess.ext, g, run, oc) :
            run \in EngineRuns(v, g, <<actor_addr, state_type_tag>>, TRUE),
            oc \in BOOLEAN}

\* a write-back that publishes a state even when the handler mutated none
publish_handler_state_always(change_set, actor_addr, state_tag, outs) ==
    publish_actor_state(change_set, actor_addr, state_tag,
                        IF outs # <<>> THEN handler_state(outs) ELSE simple_serialize(0))

\* handle_message: the mutated first parameter, when there is one, goes into
\* the change set
publish_handler_state(change_set, actor_addr, state_tag, outs) ==
    IF outs # <<>>
    THEN publish_actor_state(change_set, actor_addr, state_tag, handler_state(outs))
    ELSE [ok |-> TRUE, change_set |-> change_set]

\* handle_message from "Execute the handler" on
handle_message_execute(actor, actor_addr, module_id, handler_id, args, ext, g, run, oc) ==
    LET gas_before == g
        exe == execute(ext, g, run)
        gas_used == gas_used_of(gas_before, exe.gas, oc)
        trace == [loaded |-> TRUE, key |-> <<actor_addr, actor.state_tag>>,
                  invoked |-> TRUE, finished |-> exe.finished,
                  module_id |-> module_id, function |-> handler_id,
                  args |-> args, ext |-> ext, run |-> run]
        outs == exe.mutable_reference_outputs
    IN  IF gas_used.panic THEN Outcome(Panic, exe.gas, trace)
        ELSE IF ~exe.ok THEN Outcome(AsyncError(exe.error, gas_used.value), exe.gas, trace)
        ELSE IF Len(outs) > 1
        THEN Outcome(async_extension_error("inconsistent handler"), exe.gas, trace)
        ELSE LET pub == publish_handler_state(exe.change_set, actor_addr,
                                              actor.state_tag, outs)
             IN  IF ~pub.ok
                 THEN Outcome(partial_vm_error_to_async(
                                  partial_extension_error("cannot publish actor state")),
                              exe.gas, trace)
                 ELSE Outcome(AsyncSuccess(pub.change_set, exe.events,
                                           drain_sent(exe.native_extensions),
                                           gas_used.value),
                              exe.gas, trace)

\* AsyncSession::to_bcs
to_bcs(value) == simple_serialize(value)

\* the state pushed behind the caller's arguments
handler_args_appended(state, args) == args \o <<state>>

\* args.insert(0, state)
handler_args(state, args) == <<state>> \o args

\* AsyncSession::handle_message: the set of outcomes the call may have
handle_message(machine, sess, v, g, actor_addr, message_hash_, args) ==
    LET entry == resolve_message_hash(machine, message_hash_) IN
    IF entry = None
    THEN {Outcome(async_extension_error("unknown message hash"), g, NoTrace)}
    ELSE
    LET module_id == entry[1][1]
        handler_id == entry[1][2]
        found == actor_metadata_get(machine, module_id)
    IN
    IF found = None
    THEN {Outcome(async_extension_error("actor unknown"), g, NoTrace)}
    ELSE
    LET actor == found[1]
        state_type_tag == actor.state_tag
    IN
    IF ~load_type_ok(v, state_type_tag)
    THEN {Outcome(vm_error_to_async(VMError("LINKER_ERROR", "")), g, NoTrace)}
    ELSE
    LET actor_state_global == load_resource(v, actor_addr, state_type_tag)
        loaded == [NoTrace EXCEPT !.loaded = TRUE, !.key = <<actor_addr, state_type_tag>>]
    IN
    IF ~actor_state_global.ok
    THEN {Outcome(partial_vm_error_to_async(
                      VMError("FAILED_TO_DESERIALIZE_RESOURCE", "")), g, loaded)}
    ELSE
    LET actor_state == borrow_global(actor_state_global) IN
    IF ~actor_state.ok
    THEN {Outcome(partial_vm_error_to_async(actor_state.error), g, loaded)}
    ELSE
    LET all_args == handler_args(to_bcs(actor_state.value), args) IN
        {handle_message_execute(actor, actor_addr, module_id, handler_id, all_args,
                                sess.ext, g, run, oc) :
            run \in EngineRuns(v, g, <<actor_addr, state_type_tag>>, FALSE),
            oc \in BOOLEAN}

----------------------------------------------------------------------------
(* The system: one caller driving sessions against one state view *)

NoOp ==
    [op |-> "none", module_id |-> NoModule, actor_addr |-> "", message_hash |-> 0,
     args |-> <<>>, for_actor |-> "", gas_before |-> 0, existed |-> FALSE,
     prior |-> [op |-> "none", module_id |-> NoModule, actor_addr |-> ""],
     trace |-> NoTrace]

\* whether the view holds a resource of the type at the address
HoldsState(v, addr, tag) ==
    /\ <<addr, tag>> \in DOMAIN v.resources
    /\ v.resources[<<addr, tag>>] # None

NoCommit == [op |-> "none", module_id |-> NoModule, actor_addr |-> ""]

NoIncrements == [a \in Addresses |-> 0]

\* the state after AsyncVM::new(actors), the caller holding g gas
InitWith(actors, g) ==
    /\ input = actors
    /\ vm \in AsyncVM_new(actors)
    /\ view = [modules |-> PublishedModules, resources |-> EmptyResources]
    /\ gas = g
    /\ session = NoSession
    /\ result = NoResult
    /\ last = NoOp
    /\ committed = NoCommit
    /\ increments = NoIncrements

\* a second caller with a state view of its own; it stays idle unless the
\* specification lets it act
NoPeer ==
    [session |-> NoSession,
     view |-> [modules |-> PublishedModules, resources |-> EmptyResources],
     gas |-> 0, result |-> NoResult, last |-> NoOp]

Init == InitWith(Actors, MaxGas) /\ peer = NoPeer

\* no operation runs once the process has aborted
Alive == result.kind # "panic"

\* the caller, done with the previous result, opens a session on its state view
NewSession(for_actor, virtual_time) ==
    /\ Alive
    /\ ~session.open
    /\ session' = new_session(for_actor, virtual_time)
    /\ result' = NoResult
    /\ last' = NoOp
    /\ UNCHANGED <<vm, view, gas, committed, input, increments, peer>>

\* the session's new_actor returns one of the outcomes outs
NewActorReturns(module_id, actor_addr, outs) ==
    /\ Alive
    /\ session.open
    /\ \E out \in outs :
        /\ result' = out.result
        /\ gas' = out.gas
        /\ last' = [op |-> "new_actor", module_id |-> module_id,
                    actor_addr |-> actor_addr, message_hash |-> 0, args |-> <<>>,
                    for_actor |-> session.ext.current_actor, gas_before |-> gas,
                    existed |-> /\ module_id \in DOMAIN vm.actor_metadata
                                /\ HoldsState(view, actor_addr,
                                              vm.actor_metadata[module_id].state_tag),
                    prior |-> committed, trace |-> out.trace]
    /\ session' = NoSession
    /\ UNCHANGED <<vm, committed, input, peer>>

\* a new_actor that writes its change set through to the state view
NewActorCommitting(module_id, actor_addr) ==
    /\ NewActorReturns(module_id, actor_addr,
                       new_actor(vm, session, view, gas, module_id, actor_addr))
    /\ view' = IF result'.kind = "success"
               THEN [view EXCEPT !.resources = apply_change_set(@, result'.change_set)]
               ELSE view
    /\ UNCHANGED increments

\* the caller lets the open session create an actor
NewActor(module_id, actor_addr) ==
    /\ NewActorReturns(module_id, actor_addr,
                       new_actor(vm, session, view, gas, module_id, actor_addr))
    /\ UNCHANGED <<view, increments>>

\* the session's handle_message returns one of the outcomes outs
HandleMessageReturns(actor_addr, message_hash_, args, outs) ==
    /\ Alive
    /\ session.open
    /\ \E out \in outs :
        /\ result' = out.result
        /\ gas' = out.gas
        /\ last' = [op |-> "handle_message",
                    module_id |-> IF message_hash_ \in DOMAIN vm.message_table
                                  THEN vm.message_table[message_hash_][1] ELSE NoModule,
                    actor_addr |-> actor_addr, message_hash |-> message_hash_,
                    args |-> args, for_actor |-> session.ext.current_actor,
                    gas_before |-> gas,
                    existed |-> /\ message_hash_ \in DOMAIN vm.message_table
                                /\ HoldsState(view, actor_addr,
                                       vm.actor_metadata[vm.message_table[message_hash_][1]].state_tag),
                    prior |-> committed, trace |-> out.trace]
    /\ session' = NoSession
    /\ UNCHANGED <<vm, committed, input, peer>>

\* the caller lets the open session handle a message
HandleMessage(actor_addr, message_hash_, args) ==
    /\ HandleMessageReturns(actor_addr, message_hash_, args,
            handle_message(vm, session, view, gas, actor_addr, message_hash_, args))
    /\ UNCHANGED <<view, increments>>

\* the caller commits the change set of the successful operation to its view
Commit ==
    /\ ~session.open
    /\ result.kind = "success"
    /\ view' = [view EXCEPT !.resources = apply_change_set(@, result.change_set)]
    /\ committed' = [op |-> last.op, module_id |-> last.module_id,
                     actor_addr |-> last.actor_addr]
    /\ result' = NoResult
    /\ UNCHANGED <<vm, gas, session, last, input, peer>>

ApplyChangeSet == Commit /\ UNCHANGED increments

Next ==
    \/ \E a \in Addresses, t \in VirtualTimes : NewSession(a, t)
    \/ \E m \in ModuleIds, a \in Addresses : NewActor(m, a)
    \/ \E a \in Addresses, h \in CallerHashes, args \in CallerArgs : HandleMessage(a, h, args)
    \/ ApplyChangeSet

Spec == Init /\ [][Next]_vars

----------------------------------------------------------------------------
(* The Counter scenario: state u64, the initializer returns 0, the handler  *)
(* Increment adds one to the state it is given                              *)

\* argument lists the caller sends along with Increment
CounterArgs == {<<>>, <<<<9>>, <<8>>>>}

\* the runs Counter's code can make: it touches no global storage, its
\* initializer returns the state 0 and its Increment handler leaves its
\* first parameter one larger; either may fail (out of gas)
CounterRun(trace) ==
    (trace.run.ok /\ trace.run.finish_ok) =>
        /\ trace.run.change_set = EmptyChangeSet
        /\ trace.function = "init" =>
              trace.run.return_values = <<<<simple_serialize(0), "State">>>>
        /\ trace.function = "increment" =>
              /\ trace.args # <<>>
              /\ Len(trace.args[1]) = 8
              /\ trace.run.mutable_reference_outputs =
                    <<<<0, simple_serialize(le_value(trace.args[1]) + 1), "State">>>>

CounterOutcomes(outs) == {o \in outs : o.trace.invoked => CounterRun(o.trace)}

\* the caller opens the next session once it has applied a returned change set
CounterNewSession(for_actor, virtual_time) ==
    /\ result.kind # "success"
    /\ NewSession(for_actor, virtual_time)

CounterNewActor(actor_addr) ==
    /\ NewActorReturns("Counter", actor_addr,
            CounterOutcomes(new_actor(vm, session, view, gas, "Counter", actor_addr)))
    /\ UNCHANGED <<view, increments>>

CounterIncrement(actor_addr, args) ==
    /\ HandleMessageReturns(actor_addr, message_hash("Counter", "increment"), args,
            CounterOutcomes(handle_message(vm, session, view, gas, actor_addr,
                                           message_hash("Counter", "increment"), args)))
    /\ UNCHANGED <<view, increments>>

CounterApply ==
    /\ Commit
    /\ increments' = [increments EXCEPT ![last.actor_addr] =
                          IF last.op = "new_actor" THEN 0 ELSE @ + 1]

NextCounter ==
    \/ \E a \in Addresses, t \in VirtualTimes : CounterNewSession(a, t)
    \/ \E a \in Addresses : CounterNewActor(a)
    \/ \E a \in Addresses, args \in CounterArgs : CounterIncrement(a, args)
    \/ CounterApply

SpecCounter == Init /\ [][NextCounter]_vars

----------------------------------------------------------------------------
(* Construction from any list of actor definitions *)

ActorPool == {CounterActor, CounterPeekActor, PingActor, PongActor}

\* the lists of actor definitions AsyncVM::new is given
ActorLists == {<<a>> : a \in ActorPool} \cup {<<a, b>> : a, b \in ActorPool}

InitNew == \E actors \in ActorLists : InitWith(actors, MaxGas) /\ peer = NoPeer

\* every identifier of the hash's width, resolvable or not
AllHashes == 0..(2 ^ HashBits - 1)

\* one actor address and no message arguments: the instance is what varies
NextNew ==
    \/ \E t \in VirtualTimes : NewSession("A1", t)
    \/ \E m \in ModuleIds \cup {"Pong"} : NewActor(m, "A1")
    \/ \E h \in AllHashes : HandleMessage("A1", h, <<>>)
    \/ ApplyChangeSet

SpecNew == InitNew /\ [][NextNew]_vars

----------------------------------------------------------------------------
(* Two callers, each with sessions on a state view of its own, sharing the  *)
(* engine instance                                                          *)

\* the second caller's view already holds a Counter actor at A1
PeerStart ==
    [NoPeer EXCEPT !.gas = ParGas,
                   !.view.resources[<<"A1", CounterTag>>] = Some(simple_serialize(1))]

InitPar == InitWith(Actors, ParGas) /\ peer = PeerStart

PeerAlive == peer.result.kind # "panic"

PeerNewSession(for_actor, virtual_time) ==
    /\ PeerAlive
    /\ ~peer.session.open
    /\ peer' = [peer EXCEPT !.session = new_session(for_actor, virtual_time),
                            !.result = NoResult, !.last = NoOp]
    /\ UNCHANGED <<vm, view, gas, session, result, last, committed, input, increments>>

PeerNewActor(module_id, actor_addr) ==
    /\ PeerAlive
    /\ peer.session.open
    /\ \E out \in new_actor(vm, peer.session, peer.view, peer.gas, module_id, actor_addr) :
        peer' = [peer EXCEPT
            !.session = NoSession, !.result = out.result, !.gas = out.gas,
            !.last = [op |-> "new_actor", module_id |-> module_id,
                      actor_addr |-> actor_addr, message_hash |-> 0, args |-> <<>>,
                      for_actor |-> peer.session.ext.current_actor,
                      gas_before |-> peer.gas,
                      existed |-> /\ module_id \in DOMAIN vm.actor_metadata
                                  /\ HoldsState(peer.view, actor_addr,
                                                vm.actor_metadata[module_id].state_tag),
                      prior |-> NoCommit, trace |-> out.trace]]
    /\ UNCHANGED <<vm, view, gas, session, result, last, committed, input, increments>>

PeerHandleMessage(actor_addr, message_hash_, args) ==
    /\ PeerAlive
    /\ peer.session.open
    /\ \E out \in handle_message(vm, peer.session, peer.view, peer.gas, actor_addr, message_hash_, args) :
        peer' = [peer EXCEPT
            !.session = NoSession, !.result = out.result, !.gas = out.gas,
            !.last = [op |-> "handle_message",
                      module_id |-> IF message_hash_ \in DOMAIN vm.message_table
                                    THEN vm.message_table[message_hash_][1] ELSE NoModule,
                      actor_addr |-> actor_addr, message_hash |-> message_hash_,
                      args |-> args, for_actor |-> peer.session.ext.current_actor,
                      gas_before |-> peer.gas,
                      existed |-> /\ message_hash_ \in DOMAIN vm.message_table
                                  /\ HoldsState(peer.view, actor_addr,
                                         vm.actor_metadata[vm.message_table[message_hash_][1]].state_tag),
                      prior |-> NoCommit, trace |-> out.trace]]
    /\ UNCHANGED <<vm, view, gas, session, result, last, committed, input, increments>>

\* both callers address the Counter actor at A1 of their own view
NextPar ==
    \/ \E a \in Addresses, t \in VirtualTimes : NewSession(a, t)
    \/ NewActor("Counter", "A1")
    \/ HandleMessage("A1", message_hash("Counter", "increment"), <<>>)
    \/ \E a \in Addresses, t \in VirtualTimes : PeerNewSession(a, t)
    \/ PeerNewActor("Counter", "A1")
    \/ PeerHandleMessage("A1", message_hash("Counter", "increment"), <<>>)

SpecPar == InitPar /\ [][NextPar]_vars

----------------------------------------------------------------------------
(* Gas accounting *)

\* the operation has returned (or aborted) and its result is still at hand
Returned == result.kind # "none"

\* the engine invocation of the initializer or handler was reached
Invoked == Returned /\ last.trace.invoked

\* the gas the engine call consumed: remaining before minus remaining after
GasConsumed == last.gas_before - gas

\* C1: every new_actor or handle_message that reaches the engine invocation
\* reports, on success and on failure, gas_used = remaining gas before the
\* invocation minus remaining gas after it, a non-negative amount.
C1_GasUsedIsBeforeMinusAfter ==
    Invoked =>
        /\ result.kind \in {"success", "error"}
        /\ result.gas_used = GasConsumed
        /\ result.gas_used \in 0..last.gas_before

\* C2: when the engine call succeeds and the postcondition fails
\* ("inconsistent initializer", "inconsistent handler"), the AsyncError
\* carries the gas consumed by the completed engine call.
C2_PostconditionErrorCarriesGas ==
    (/\ result.kind = "error"
     /\ result.error.msg \in {"inconsistent initializer", "inconsistent handler"})
        => result.gas_used = last.trace.run.gas

----------------------------------------------------------------------------
(* Routing and preconditions *)

\* the last operation is a new_actor on the address and module whose
\* new_actor change set is the one committed last
SecondNewActor ==
    /\ Returned
    /\ last.op = "new_actor"
    /\ last.prior = [op |-> "new_actor", module_id |-> last.module_id,
                     actor_addr |-> last.actor_addr]

\* C3: after a successful new_actor whose change set was applied, a second
\* new_actor on the same address and module fails with "actor already
\* exists", gas_used = 0, without invoking the initializer and without
\* touching the gas meter; and no new_actor succeeds on an address that
\* already holds the actor's state.
C3_SecondNewActorRejected ==
    /\ SecondNewActor =>
        /\ result = async_extension_error("actor already exists")
        /\ result.gas_used = 0
        /\ ~last.trace.invoked
        /\ gas = last.gas_before
    /\ (last.op = "new_actor" /\ result.kind = "success") => ~last.existed

C3_Witness ==
    /\ SecondNewActor
    /\ result.kind = "error"
    /\ last.existed
    /\ last.gas_before > 0


\* the view holds a state at the address the last operation named
ViewHoldsStateAtAddr == HoldsState(view, last.actor_addr, CounterTag)

\* C4: new_actor on a module identity that is not in the catalog fails with
\* "actor unknown", gas_used = 0, performs neither a state load nor the
\* initializer and leaves the gas meter alone, whatever the state view holds.
C4_UnknownActorRejected ==
    (/\ Returned
     /\ last.op = "new_actor"
     /\ last.module_id \notin DOMAIN vm.actor_metadata)
        => /\ result = async_extension_error("actor unknown")
           /\ result.gas_used = 0
           /\ ~last.trace.loaded
           /\ ~last.trace.invoked
           /\ gas = last.gas_before

C4_Witness ==
    /\ Returned
    /\ last.op = "new_actor"
    /\ last.module_id \notin DOMAIN vm.actor_metadata
    /\ result.kind = "error"
    /\ ViewHoldsStateAtAddr

\* C5: handle_message on a message identifier that is no key of the dispatch
\* table fails with "unknown message hash", gas_used = 0, invokes no handler
\* and leaves the gas meter alone, whatever the address, the arguments and
\* the state view.
C5_UnknownHashRejected ==
    (/\ Returned
     /\ last.op = "handle_message"
     /\ last.message_hash \notin DOMAIN vm.message_table)
        => /\ result = async_extension_error("unknown message hash")
           /\ result.gas_used = 0
           /\ ~last.trace.loaded
           /\ ~last.trace.invoked
           /\ gas = last.gas_before

C5_Witness ==
    /\ Returned
    /\ last.op = "handle_message"
    /\ last.message_hash \notin DOMAIN vm.message_table
    /\ result.kind = "error"
    /\ last.args # <<>>
    /\ ViewHoldsStateAtAddr

\* handle_message with a known message identifier against an address that
\* holds no state of the owning actor's type
KnownHashOnEmptySlot ==
    /\ Returned
    /\ last.op = "handle_message"
    /\ last.message_hash \in DOMAIN vm.message_table
    /\ ~last.existed

\* the state type of the actor owning the last message
OwnerStateTag == vm.actor_metadata[last.module_id].state_tag

\* C6 as stated: such a handle_message fails with the engine's
\* missing-resource error, gas_used = 0, the handler not invoked.
C6_MissingResourceError ==
    KnownHashOnEmptySlot =>
        /\ result.kind = "error"
        /\ result.error.code = "MISSING_DATA"
        /\ result.gas_used = 0
        /\ ~last.trace.invoked

\* C6 amended: such a handle_message fails with an engine error, never a
\* routing error: the missing-resource error when the actor's state type
\* loads from the view, the engine's type-loading error when it does not;
\* gas_used = 0, the handler not invoked, the gas meter untouched.
C6_EngineErrorNotRouting ==
    KnownHashOnEmptySlot =>
        /\ result.kind = "error"
        /\ result.error.code =
              IF load_type_ok(view, OwnerStateTag) THEN "MISSING_DATA" ELSE "LINKER_ERROR"
        /\ result.error.code # "VM_EXTENSION_ERROR"
        /\ result.gas_used = 0
        /\ ~last.trace.invoked
        /\ gas = last.gas_before

C6_Witness ==
    /\ KnownHashOnEmptySlot
    /\ result.error.code = "MISSING_DATA"
    /\ last.trace.loaded
    /\ last.gas_before > 0

----------------------------------------------------------------------------
(* Results of successful operations *)

Succeeded(op) == result.kind = "success" /\ last.op = op

\* the slot of the actor the last operation named
ActorKey == <<last.actor_addr, OwnerStateTag>>

\* C7: a successful new_actor returns a change set holding, at (actor
\* address, state type of the module), one new resource whose value is the
\* single value the initializer returned; the other entries are the engine's.
C7_NewActorPublishesState ==
    Succeeded("new_actor") =>
        /\ Len(last.trace.run.return_values) = 1
        /\ result.change_set[ActorKey] = Written(last.trace.run.return_values[1][1])
        /\ \A k \in ResourceKeys \ {ActorKey} :
              result.change_set[k] = last.trace.run.change_set[k]

C7_Witness ==
    /\ Succeeded("new_actor")
    /\ result.change_set[ActorKey] = Written(simple_serialize(MaxVal))
    /\ \E k \in ResourceKeys \ {ActorKey} : result.change_set[k] # Untouched

\* C8: the messages of a successful new_actor or handle_message are exactly
\* the messages queued during the execution, in the order queued, the
\* session's buffer having started empty.
C8_MessagesAreThoseSent ==
    result.kind = "success" =>
        /\ last.trace.ext.sent = <<>>
        /\ result.messages = last.trace.run.sent

C8_Witness ==
    /\ Succeeded("new_actor")
    /\ result.messages = <<Msg2, Msg1>>

\* C9: a successful handle_message whose engine call yields no
\* mutable-reference output returns the engine's change set with nothing
\* written by the session, and all events and messages of the call.
C9_NoMutationNoStateEntry ==
    (Succeeded("handle_message") /\ last.trace.run.mutable_reference_outputs = <<>>)
        => /\ result.change_set = last.trace.run.change_set
           /\ result.events = last.trace.run.events
           /\ result.messages = last.trace.run.sent

C9_Witness ==
    /\ Succeeded("handle_message")
    /\ last.trace.run.mutable_reference_outputs = <<>>
    /\ result.change_set[ActorKey] = Untouched
    /\ result.events # <<>>
    /\ result.messages # <<>>

\* C10: a successful handle_message whose engine call yields exactly one
\* mutable-reference output returns a change set whose state resource at
\* (actor address, state type of the owning actor) is the mutated bytes.
C10_MutationWrittenBack ==
    (Succeeded("handle_message") /\ Len(last.trace.run.mutable_reference_outputs) = 1)
        => result.change_set[ActorKey] =
              Written(last.trace.run.mutable_reference_outputs[1][2])

C10_Witness ==
    /\ Succeeded("handle_message")
    /\ Len(last.trace.run.mutable_reference_outputs) = 1
    /\ result.change_set[ActorKey] = Written(simple_serialize(MaxVal))
    /\ view.resources[ActorKey] = Some(simple_serialize(0))


----------------------------------------------------------------------------
(* The handler's arguments *)

\* C11: the handler is given the serialized state the view holds at the
\* actor address as argument 0, then the caller's arguments in their order;
\* so for Counter, each returned change set being applied before the next
\* session opens, new_actor yields state 0 and the n-th successful
\* handle_message(Increment) yields state n.
C11_StateFirstThenCallerArgs ==
    /\ (Invoked /\ last.op = "handle_message") =>
          last.trace.args = <<view.resources[ActorKey][1]>> \o last.args
    /\ Succeeded("new_actor") =>
          result.change_set[ActorKey] = Written(simple_serialize(0))
    /\ Succeeded("handle_message") =>
          result.change_set[ActorKey] =
              Written(simple_serialize(increments[last.actor_addr] + 1))
    /\ \A a \in Addresses :
          HoldsState(view, a, CounterTag) =>
              view.resources[<<a, CounterTag>>] = Some(simple_serialize(increments[a]))

C11_Witness ==
    /\ last.op = "handle_message"
    /\ last.args = <<<<9>>, <<8>>>>
    /\ increments[last.actor_addr] = 2
    /\ view.resources[ActorKey] = Some(simple_serialize(2))

----------------------------------------------------------------------------
(* The execution context and the engine call *)

\* C12: the initializer-phase flag native code observes is true during the
\* execution new_actor starts and false during the one handle_message starts.
C12_InitializerFlagMatchesOperation ==
    Invoked => (last.trace.ext.in_initializer <=> last.op = "new_actor")

C19_CurrentActorIsActorAddr ==
    (Returned /\ last.trace.loaded) =>
        /\ last.trace.key[1] = last.actor_addr
        /\ last.for_actor = last.actor_addr
        /\ last.trace.invoked => last.trace.ext.current_actor = last.actor_addr

----------------------------------------------------------------------------
(* Frame of the operations and isolation of sessions *)

\* C14: an operation, succeeding or failing, leaves the state view, the
\* catalog and the dispatch table as they were; the view changes only when
\* the caller applies the change set of a returned AsyncSuccess.
C14_OperationsModifyNothing ==
    [][/\ vm' = vm
       /\ (session.open /\ ~session'.open) => view' = view
       /\ view' # view =>
             /\ ~session.open
             /\ result.kind = "success"
             /\ view' = [view EXCEPT !.resources =
                                        apply_change_set(@, result.change_set)]]_vars

C14_Witness ==
    /\ Succeeded("new_actor")
    /\ result.change_set[ActorKey] # Untouched
    /\ view.resources[ActorKey] = None

\* res is a result that the operation recorded in l has on a fresh session
\* against the view v, nothing else running and the engine running the
\* actor code as it did
RunAlone(l, v, res) ==
    \E t \in VirtualTimes :
        LET fresh == new_session(l.for_actor, t) IN
        IF l.trace.invoked
        THEN \E oc \in BOOLEAN :
                LET actor == vm.actor_metadata[l.trace.module_id]
                    o == IF l.op = "new_actor"
                         THEN new_actor_execute(actor, l.actor_addr, fresh.ext,
                                                l.gas_before, l.trace.run, oc)
                         ELSE handle_message_execute(actor, l.actor_addr, l.trace.module_id,
                                  l.trace.function,
                                  handler_args(to_bcs(borrow_global(load_resource(
                                      v, l.actor_addr, actor.state_tag)).value), l.args),
                                  fresh.ext, l.gas_before, l.trace.run, oc)
                IN  o.result = res
        ELSE \E o \in IF l.op = "new_actor"
                      THEN new_actor(vm, fresh, v, l.gas_before, l.module_id, l.actor_addr)
                      ELSE handle_message(vm, fresh, v, l.gas_before,
                                          l.actor_addr, l.message_hash, l.args) :
                o.result = res

\* C15: with sessions of two callers interleaved on one engine instance and
\* separate state views, a session performs at most one operation, the
\* operation's result is one it has when run alone and leaves the other
\* caller's session, view and result alone, and the messages of a success
\* are those its own execution queued.
C15_SessionsAreIsolated ==
    /\ [](/\ last.op # "none" =>
              /\ RunAlone(last, view, result)
              /\ result.kind = "success" => result.messages = last.trace.run.sent
          /\ peer.last.op # "none" =>
              /\ RunAlone(peer.last, peer.view, peer.result)
              /\ peer.result.kind = "success" =>
                    peer.result.messages = peer.last.trace.run.sent)
    /\ [][/\ (last' # last /\ last'.op # "none") => (session.open /\ ~session'.open)
          /\ (peer'.last # peer.last /\ peer'.last.op # "none") =>
                (peer.session.open /\ ~peer'.session.open)
          /\ (session.open /\ ~session'.open) => peer' = peer
          /\ (peer.session.open /\ ~peer'.session.open) =>
                UNCHANGED <<view, gas, session, result, last>>]_vars

C15_Witness ==
    /\ session.open
    /\ peer.result.kind = "success"
    /\ peer.result.messages = <<Msg1, Msg2>>
    /\ peer.last.for_actor # session.ext.current_actor

----------------------------------------------------------------------------
(* Construction: the catalog and the dispatch table *)

\* C13 as stated: resolving the identifier of any (module, message) pair a
\* catalog entry declares yields exactly that pair; no two registered pairs
\* share an identifier.
C13_RegisteredPairResolvesToItself ==
    \A m \in DOMAIN vm.actor_metadata :
        \A n \in Range(vm.actor_metadata[m].messages) :
            resolve_message_hash(vm, message_hash(m, n)) = Some(<<m, n>>)

LastDefinition(m) ==
    input[CHOOSE i \in DOMAIN input :
              /\ input[i].module_id = m
              /\ \A j \in DOMAIN input : j > i => input[j].module_id # m]

\* C17: with several definitions of one module identity, construction
\* succeeds, the catalog holds the last of them in input order, and the
\* dispatch table has entries only for messages the surviving definition
\* declares, so no handler of an overwritten definition is ever dispatched.
C17_LastDefinitionWins ==
    /\ DOMAIN vm.actor_metadata = {input[i].module_id : i \in DOMAIN input}
    /\ \A m \in DOMAIN vm.actor_metadata : vm.actor_metadata[m] = LastDefinition(m)
    /\ \A h \in DOMAIN vm.message_table :
          vm.message_table[h][2] \in Range(LastDefinition(vm.message_table[h][1]).messages)
    /\ (Invoked /\ last.op = "handle_message") =>
          last.trace.function \in Range(LastDefinition(last.trace.module_id).messages)

C17_Witness ==
    /\ input = <<CounterActor, CounterPeekActor>>
    /\ Returned
    /\ last.op = "handle_message"
    /\ last.message_hash = message_hash("Counter", "increment")
    /\ result = async_extension_error("unknown message hash")

\* C18: the module of every dispatch table entry is a key of the catalog and
\* the entry's handler is one of that catalog entry's messages; handle_message
\* never answers "actor unknown" to an identifier the table resolves.
C18_DispatchEntriesAreCatalogued ==
    /\ \A h \in DOMAIN vm.message_table :
          /\ vm.message_table[h][1] \in DOMAIN vm.actor_metadata
          /\ vm.message_table[h][2] \in
                Range(vm.actor_metadata[vm.message_table[h][1]].messages)
    /\ (Returned /\ last.op = "handle_message"
            /\ resolve_message_hash(vm, last.message_hash) # None)
          => /\ result # async_extension_error("actor unknown")
             /\ last.trace.invoked =>
                   <<last.trace.module_id, last.trace.function>> =
                       vm.message_table[last.message_hash]

C18_Witness ==
    /\ Invoked
    /\ last.op = "handle_message"
    /\ Len(input) > 1
    /\ vm.message_table[last.message_hash] = <<"Counter", "peek">>

====
